---- MODULE Spec2Model ----
(***************************************************************************)
(* Model of the scheduled-post processing of the LinkedIn auto-poster:     *)
(* the post and account store, the process-scheduled sweep of the Express  *)
(* server and of the Workers port, post creation, the on-demand publish   *)
(* handler, and the PostScheduler timer.                                   *)
(*                                                                         *)
(* Time is counted in minutes.  Every `await` of a handler is a step of    *)
(* its own, so that other handlers and the clock may run in between.       *)
(***************************************************************************)
EXTENDS Integers, Sequences, FiniteSets, TLC

VARIABLES
    variant,      \* which deployment runs: "express" (server/) or "worker" (src/)
    clock,        \* the wall clock, what `new Date()` returns
    posts,        \* the posts table: post id -> row ("absent" when no row)
    accounts,     \* the linkedin_accounts table: account id -> row
    sweeps,       \* the process-scheduled requests in flight: slot -> locals
    pubCalls,     \* per post, the publishPost calls issued so far: <<[token, ok, id]>>
    faultsLeft,   \* how many storage calls may still throw
    intervalId,   \* PostScheduler.intervalId: NoId or the handle setInterval gave
    timers,       \* the live interval timers: {[h: handle, fireAt: next firing]}
    sched         \* the scheduler's history: start() calls, sweeps triggered
                  \* since the last start, its time, requests not yet served,
                  \* and whether the last stop() met a sweep in flight

vars == <<variant, clock, posts, accounts, sweeps, pubCalls, faultsLeft,
          intervalId, timers, sched>>

----------------------------------------------------------------------------
(* Bounds *)

MaxPosts == 3
MaxTime == 3
MaxSweeps == 2
MaxPubCalls == 2
MaxFaults == 1
ExpiresIn == 2
MaxStarts == 2
MaxTicks == 11
MaxSharedPosts == 1
MaxFaultPosts == 2
MaxFaultTime == 2
MaxOverlapTime == 1
MaxOrderPosts == 2
MaxOrderTime == 1

(* Program constants *)

checkInterval == 5

----------------------------------------------------------------------------
(* Values *)

Null == "null"      \* NULL in a text column, `undefined` in a local
NoTime == 0 - 1     \* NULL in a timestamp column
NoId == <<>>        \* NULL in linkedin_post_id; an id is a non-empty tuple

PostIds == 1..MaxPosts
SweepIds == 1..MaxSweeps
AccountIds == {"acctR", "acctN"}
Variants == {"express", "worker"}

MsgNotFound == "LinkedIn account not found"
MsgExpired == "LinkedIn token expired and no refresh token available"
MsgRefresh == "Failed to refresh LinkedIn access token"
MsgApi == "LinkedIn API error"
MsgDb == "storage error"

Post(st, at, acct) ==
    [status |-> st, scheduledAt |-> at, linkedinAccountId |-> acct,
     linkedinPostId |-> NoId, publishedAt |-> NoTime, errorMessage |-> Null]

NoPost == Post("absent", NoTime, Null)

Account(tok, rt, exp) ==
    [accessToken |-> tok, refreshToken |-> rt, tokenExpiresAt |-> exp]

SchedTimes == {1}

\* the request bodies tried: a scheduled post for each account (or none),
\* and a draft
ScheduledInputs == SchedTimes \X (AccountIds \cup {Null})

DraftInput == <<NoTime, Null>>

Snapshot(p) ==
    [id |-> p, scheduledAt |-> posts[p].scheduledAt,
     linkedinAccountId |-> posts[p].linkedinAccountId]

NoSnapshot == [id |-> 0, scheduledAt |-> NoTime, linkedinAccountId |-> Null]

\* The locals of one process-scheduled request.  `rest` holds the fetched rows
\* the loop has not visited yet and `cur` the row it is at: the loop visits
\* the rows in the order the query returned them, which is settled here row
\* by row as the loop reaches them (see NextRows).
IdleSweep ==
    [pc |-> "idle", now |-> 0, total |-> 0, rest |-> {}, cur |-> NoSnapshot,
     processed |-> 0, failed |-> 0,
     token |-> 0, newToken |-> 0, err |-> Null, extId |-> NoId,
     code |-> 0,
     \* history of this request, kept for the properties
     fetched |-> {}, due |-> {}, wrotePublished |-> {}, wroteFailed |-> {}, envFailed |-> {},
     refreshed |-> FALSE,
     thrown |-> {},      \* posts whose try block threw
     rejected |-> {},    \* accounts whose refresh the provider rejected
     outer |-> FALSE]    \* a call outside the try blocks rejected

----------------------------------------------------------------------------
(* Storage *)

Exists(p) == posts[p].status \notin {"absent", "deleted"}

\* ORDER BY scheduled_at: ascending, NULL last (PostgreSQL); the order of rows
\* with equal keys is the database's choice.
OrderedBefore(x, y) ==
    \/ y.scheduledAt = NoTime
    \/ x.scheduledAt # NoTime /\ x.scheduledAt <= y.scheduledAt

\* a result that would come in any order
NextRows_AnyOrder(rest) == rest

\* the rows that may come next in the query's result, given those still to come
NextRows(rest) == { x \in rest : \A y \in rest : OrderedBefore(x, y) }

\* a fetch that would hand published posts back to the sweep
getScheduledPosts_AlsoPublished ==
    { p \in PostIds : posts[p].status \in {"scheduled", "published"} }

\* a fetch that would hand failed posts back to the sweep
getScheduledPosts_AlsoFailed ==
    { p \in PostIds : posts[p].status \in {"scheduled", "failed"} }

\* server/storage.ts: WHERE status = 'scheduled'
getScheduledPostsExpress ==
    { p \in PostIds : posts[p].status = "scheduled" }

\* src/storage.ts: WHERE status = 'scheduled' AND scheduled_at = now
getScheduledPostsWorker ==
    { p \in PostIds : posts[p].status = "scheduled" /\ posts[p].scheduledAt = clock }

getScheduledPosts ==
    IF variant = "express" THEN getScheduledPostsExpress ELSE getScheduledPostsWorker

\* UPDATE posts SET ... WHERE id = p: no row, no change, no error
updatePost(p, st, extId, at, msg) ==
    IF Exists(p)
    THEN [posts EXCEPT ![p] =
            [@ EXCEPT !.status = st,
                      !.linkedinPostId = IF extId = NoId THEN @ ELSE extId,
                      !.publishedAt = IF at = NoTime THEN @ ELSE at,
                      !.errorMessage = IF msg = Null THEN @ ELSE msg]]
    ELSE posts

\* SELECT ... WHERE id = $1: a NULL id matches no row.  Every other id a post
\* carries names a stored account (the column is a foreign key).
AccountFound(id) == id \in AccountIds

updateLinkedinAccount(id, tok, exp) ==
    [accounts EXCEPT ![id] = [@ EXCEPT !.accessToken = tok, !.tokenExpiresAt = exp]]

CanFault == faultsLeft > 0

----------------------------------------------------------------------------
(* The provider *)

\* the id LinkedIn assigns to the post the next accepted call for p creates:
\* opaque, and different for every call
NextExternalId(p) == <<p, Len(pubCalls[p]) + 1>>

OkCalls(p) == { i \in 1..Len(pubCalls[p]) : pubCalls[p][i].ok }

----------------------------------------------------------------------------
(* The process-scheduled handler *)

Current(sw) == sw.cur

\* the `if` that opens the loop body
EligibleExpress(snap, now) ==
    snap.scheduledAt # NoTime /\ snap.scheduledAt <= now

EligibleWorker(snap, now) ==
    /\ snap.scheduledAt # NoTime /\ snap.scheduledAt <= now
    /\ snap.linkedinAccountId # Null

\* an eligibility check that would pass only posts strictly in the past
Eligible_StrictlyPast(snap, now) ==
    /\ snap.scheduledAt # NoTime /\ snap.scheduledAt < now
    /\ variant = "worker" => snap.linkedinAccountId # Null

Eligible(snap, now) ==
    IF variant = "express" THEN EligibleExpress(snap, now)
    ELSE EligibleWorker(snap, now)

\* "Check if token needs refresh": only the Express handler has the check
TokenExpired(acct, now) ==
    /\ variant = "express"
    /\ acct.tokenExpiresAt # NoTime /\ acct.tokenExpiresAt < now

\* the JSON answered after the loop
Respond(sw) == [sw EXCEPT !.pc = "done", !.code = 200]

\* a loop that would come back to the post it has just handled
NextIteration_Revisits(sw) ==
    [sw EXCEPT !.rest = @ \cup {sw.cur}, !.cur = NoSnapshot, !.token = 0,
               !.newToken = 0, !.err = Null, !.extId = NoId,
               !.refreshed = FALSE, !.pc = "loop"]

\* the end of one iteration: on to the next fetched post, or answer
NextIteration(sw) ==
    LET nx == [sw EXCEPT !.cur = NoSnapshot, !.token = 0, !.newToken = 0,
                         !.err = Null, !.extId = NoId, !.refreshed = FALSE]
    IN  IF nx.rest = {} THEN Respond(nx) ELSE [nx EXCEPT !.pc = "loop"]

\* a `throw` that would leave the handler through its outer catch
Throw_Propagates(sw, msg) == [sw EXCEPT !.pc = "done", !.code = 500, !.err = msg]

\* `throw` inside the per-post try: control goes to its catch
Throw(sw, msg) ==
    [sw EXCEPT !.pc = "catch", !.err = msg, !.thrown = @ \cup {sw.cur.id}]

\* a catch block that would give the whole request up
AfterCatch_Aborts(sw) == [sw EXCEPT !.pc = "done", !.code = 500]

\* the catch block once its updatePost has returned
AfterCatch(sw) ==
    NextIteration([sw EXCEPT !.failed = @ + 1,
                             !.wroteFailed = @ \cup {Current(sw).id}])

\* a try block that would count the post on both sides
AfterPublished_CountsBoth(sw) ==
    NextIteration([sw EXCEPT !.processed = @ + 1, !.failed = @ + 1,
                             !.wrotePublished = @ \cup {Current(sw).id},
                             !.wroteFailed = @ \cup {Current(sw).id}])

\* the try block once its updatePost has returned
AfterPublished(sw) ==
    NextIteration([sw EXCEPT !.processed = @ + 1,
                             !.wrotePublished = @ \cup {Current(sw).id}])

\* an error outside the per-post try: the outer catch answers 500
Abort(sw) == [sw EXCEPT !.pc = "done", !.code = 500]

DueNow(p) ==
    /\ posts[p].status = "scheduled"
    /\ posts[p].scheduledAt # NoTime /\ posts[p].scheduledAt <= clock

\* a total that would count only the rows that name an account
Total_WithAccountOnly(rows) ==
    Cardinality({ r \in rows : r.linkedinAccountId # Null })

\* total: scheduledPosts.length
Total(rows) == Cardinality(rows)

\* a handler that would turn a request away while another is being served
BeginSweep_Exclusive(s) ==
    /\ \A t \in SweepIds : sweeps[t].pc = "idle"
    /\ LET rows == { Snapshot(p) : p \in getScheduledPosts }
           sw == [IdleSweep EXCEPT !.now = clock, !.total = Total(rows),
                                   !.rest = rows, !.pc = "loop",
                                   !.fetched = getScheduledPosts,
                                   !.due = { p \in PostIds : DueNow(p) }]
       IN  sweeps' = [sweeps EXCEPT ![s] = IF rows = {} THEN Respond(sw) ELSE sw]
    /\ UNCHANGED <<variant, clock, posts, accounts, pubCalls, faultsLeft,
                   intervalId, timers>>

\* const scheduledPosts = await storage.getScheduledPosts(); const now = new Date()
BeginSweep(s) ==
    /\ sweeps[s].pc = "idle"
    /\ \/ /\ CanFault
          /\ faultsLeft' = faultsLeft - 1
          /\ sweeps' = [sweeps EXCEPT ![s] =
                Abort([IdleSweep EXCEPT !.now = clock, !.outer = TRUE])]
       \/ /\ LET rows == { Snapshot(p) : p \in getScheduledPosts }
                  sw == [IdleSweep EXCEPT
                              !.now = clock,
                              !.total = Total(rows),
                              !.rest = rows, !.pc = "loop",
                              !.fetched = getScheduledPosts,
                              !.due = { p \in PostIds : DueNow(p) }]
              IN  sweeps' = [sweeps EXCEPT ![s] =
                                IF rows = {} THEN Respond(sw) ELSE sw]
          /\ UNCHANGED faultsLeft
    /\ UNCHANGED <<variant, clock, posts, accounts, pubCalls, intervalId, timers>>

\* a direct call of the endpoint
SweepStart(s) ==
    /\ BeginSweep(s)
    /\ UNCHANGED sched

\* the endpoint serves a request the scheduler sent
SweepStartTriggered(s) ==
    /\ sched.pending > 0
    /\ BeginSweep(s)
    /\ sched' = [sched EXCEPT !.pending = @ - 1]

\* the eligibility check and `await storage.getLinkedinAccount(...)`
SweepLookup(s) ==
    /\ sweeps[s].pc = "loop"
    /\ \E snap \in NextRows(sweeps[s].rest) :
        LET sw == [sweeps[s] EXCEPT !.cur = snap, !.rest = @ \ {snap}]
            id == snap.linkedinAccountId
        IN
        /\ IF ~Eligible(snap, sw.now)
           THEN /\ sweeps' = [sweeps EXCEPT ![s] = NextIteration(sw)]
                /\ UNCHANGED faultsLeft
           ELSE \/ /\ CanFault
                   /\ faultsLeft' = faultsLeft - 1
                   /\ sweeps' = [sweeps EXCEPT ![s] =
                         Throw([sw EXCEPT !.envFailed = @ \cup {snap.id}], MsgDb)]
                \/ /\ UNCHANGED faultsLeft
                   /\ sweeps' = [sweeps EXCEPT ![s] =
                         IF ~AccountFound(id) THEN Throw(sw, MsgNotFound)
                         ELSE IF TokenExpired(accounts[id], sw.now)
                         THEN IF accounts[id].refreshToken # Null
                              THEN [sw EXCEPT !.pc = "refresh"]
                              ELSE Throw(sw, MsgExpired)
                         ELSE [sw EXCEPT !.pc = "publish",
                                         !.token = accounts[id].accessToken]]
    /\ UNCHANGED <<variant, clock, posts, accounts, pubCalls, intervalId, timers, sched>>

\* await linkedInService.refreshAccessToken(refreshToken)
SweepRefresh(s) ==
    LET sw == sweeps[s]
        id == Current(sw).linkedinAccountId
    IN  /\ sw.pc = "refresh"
        /\ \E ok \in BOOLEAN :
             sweeps' = [sweeps EXCEPT ![s] =
                IF ok THEN [sw EXCEPT !.pc = "save",
                                      !.newToken = accounts[id].accessToken + 1]
                ELSE Throw([sw EXCEPT !.envFailed = @ \cup {Current(sw).id},
                                      !.rejected = @ \cup {id}], MsgRefresh)]
        /\ UNCHANGED <<variant, clock, posts, accounts, pubCalls, faultsLeft,
                       intervalId, timers, sched>>

\* the local copy of the account after the refresh
UseToken(sw) ==
    [sw EXCEPT !.pc = "publish", !.token = sw.newToken, !.refreshed = TRUE]

\* await storage.updateLinkedinAccount(...); linkedinAccount.accessToken = ...
SweepSaveToken(s) ==
    LET sw == sweeps[s]
        id == Current(sw).linkedinAccountId
    IN  /\ sw.pc = "save"
        /\ \/ /\ CanFault
              /\ faultsLeft' = faultsLeft - 1
              /\ sweeps' = [sweeps EXCEPT ![s] =
                    Throw([sw EXCEPT !.envFailed = @ \cup {Current(sw).id}], MsgDb)]
              /\ UNCHANGED accounts
           \/ /\ accounts' = updateLinkedinAccount(id, sw.newToken, clock + ExpiresIn)
              /\ sweeps' = [sweeps EXCEPT ![s] = UseToken(sw)]
              /\ UNCHANGED faultsLeft
        /\ UNCHANGED <<variant, clock, posts, pubCalls, intervalId, timers, sched>>

\* await linkedInService.publishPost(accessToken, content, personUrn)
SweepPublish(s) ==
    LET sw == sweeps[s]
        p == Current(sw).id
    IN  /\ sw.pc = "publish"
        /\ Len(pubCalls[p]) < MaxPubCalls
        /\ \E ok \in BOOLEAN :
             /\ pubCalls' = [pubCalls EXCEPT ![p] =
                   Append(@, [token |-> sw.token, ok |-> ok,
                              id |-> IF ok THEN NextExternalId(p) ELSE NoId,
                              by |-> s])]
             /\ sweeps' = [sweeps EXCEPT ![s] =
                   IF ok THEN [sw EXCEPT !.pc = "record", !.extId = NextExternalId(p)]
                   ELSE Throw([sw EXCEPT !.envFailed = @ \cup {p}], MsgApi)]
        /\ UNCHANGED <<variant, clock, posts, accounts, faultsLeft, intervalId, timers, sched>>

\* await storage.updatePost(post.id, {status: 'published', ...}); processed++
SweepRecord(s) ==
    LET sw == sweeps[s]
        p == Current(sw).id
    IN  /\ sw.pc = "record"
        /\ \/ /\ CanFault
              /\ faultsLeft' = faultsLeft - 1
              /\ sweeps' = [sweeps EXCEPT ![s] =
                    Throw([sw EXCEPT !.envFailed = @ \cup {p}], MsgDb)]
              /\ UNCHANGED posts
           \/ /\ posts' = updatePost(p, "published", sw.extId, clock, Null)
              /\ sweeps' = [sweeps EXCEPT ![s] = AfterPublished(sw)]
              /\ UNCHANGED faultsLeft
        /\ UNCHANGED <<variant, clock, accounts, pubCalls, intervalId, timers, sched>>

\* catch: await storage.updatePost(post.id, {status: 'failed', errorMessage}); failed++
SweepCatch(s) ==
    LET sw == sweeps[s]
        p == Current(sw).id
    IN  /\ sw.pc = "catch"
        /\ \/ /\ CanFault
              /\ faultsLeft' = faultsLeft - 1
              /\ sweeps' = [sweeps EXCEPT ![s] = Abort([sw EXCEPT !.outer = TRUE])]
              /\ UNCHANGED posts
           \/ /\ posts' = updatePost(p, "failed", NoId, NoTime, sw.err)
              /\ sweeps' = [sweeps EXCEPT ![s] = AfterCatch(sw)]
              /\ UNCHANGED faultsLeft
        /\ UNCHANGED <<variant, clock, accounts, pubCalls, intervalId, timers, sched>>

\* the response has been sent; the request's locals are gone
SweepReturn(s) ==
    /\ sweeps[s].pc = "done"
    /\ sweeps' = [sweeps EXCEPT ![s] = IdleSweep]
    /\ UNCHANGED <<variant, clock, posts, accounts, pubCalls, faultsLeft,
                   intervalId, timers, sched>>

SweepStep(s) ==
    \/ SweepLookup(s)
    \/ SweepRefresh(s)
    \/ SweepSaveToken(s)
    \/ SweepPublish(s)
    \/ SweepRecord(s)
    \/ SweepCatch(s)
    \/ SweepReturn(s)

----------------------------------------------------------------------------
(* Post creation and the clock *)

\* POST /api/posts and bulk-generate: status is 'scheduled' exactly when a
\* scheduledAt is given; ids are fresh
CreatePost(p, at, acct) ==
    /\ posts[p].status = "absent"
    /\ \A q \in PostIds : q < p => posts[q].status # "absent"
    /\ posts' = [posts EXCEPT ![p] =
          Post(IF at # NoTime THEN "scheduled" ELSE "draft", at, acct)]
    /\ UNCHANGED <<variant, clock, accounts, sweeps, pubCalls, faultsLeft,
                   intervalId, timers, sched>>

\* a timer whose time has come fires before the clock moves on
NoTimerDue == \A t \in timers : t.fireAt > clock

Tick(limit) ==
    /\ clock < limit
    /\ NoTimerDue
    /\ clock' = clock + 1
    /\ UNCHANGED <<variant, posts, accounts, sweeps, pubCalls, faultsLeft,
                   intervalId, timers, sched>>

----------------------------------------------------------------------------
(* The on-demand publish handler *)

\* a handler that would record a publish that did not succeed, as the sweep
\* does
PublishNow_MarksFailed(p, a) ==
    /\ Exists(p)
    /\ Len(pubCalls[p]) < MaxPubCalls
    /\ LET expired == accounts[a].tokenExpiresAt # NoTime
                      /\ accounts[a].tokenExpiresAt < clock
           canRefresh == variant = "express" /\ accounts[a].refreshToken # Null
       IN
       IF expired /\ ~canRefresh
       THEN /\ posts' = updatePost(p, "failed", NoId, NoTime, MsgExpired)
            /\ UNCHANGED <<accounts, pubCalls>>
       ELSE \E refreshOk, publishOk \in BOOLEAN :
            LET refreshed == expired /\ refreshOk
                token == IF refreshed THEN accounts[a].accessToken + 1
                         ELSE accounts[a].accessToken
                called == ~expired \/ refreshOk
            IN
            /\ expired \/ refreshOk
            /\ accounts' = IF refreshed
                           THEN updateLinkedinAccount(a, token, clock + ExpiresIn)
                           ELSE accounts
            /\ pubCalls' = IF called
                           THEN [pubCalls EXCEPT ![p] =
                                   Append(@, [token |-> token, ok |-> publishOk,
                                              id |-> IF publishOk THEN NextExternalId(p)
                                                     ELSE NoId,
                                              by |-> 0])]
                           ELSE pubCalls
            /\ posts' = IF called /\ publishOk
                        THEN updatePost(p, "published", NextExternalId(p), clock, Null)
                        ELSE updatePost(p, "failed", NoId, NoTime, MsgApi)
    /\ UNCHANGED <<variant, clock, sweeps, faultsLeft, intervalId, timers, sched>>

\* POST /api/posts/publish with {postId: p, linkedinAccountId: a}, the whole
\* handler: 404 without the post, 401 on an expired token that cannot be
\* refreshed (the Workers port never refreshes), 500 when the provider
\* refuses; else the post is recorded as published.
PublishNow(p, a) ==
    /\ Exists(p)
    /\ Len(pubCalls[p]) < MaxPubCalls
    /\ LET expired == accounts[a].tokenExpiresAt # NoTime
                      /\ accounts[a].tokenExpiresAt < clock
           canRefresh == variant = "express" /\ accounts[a].refreshToken # Null
       IN
       /\ expired => canRefresh
       /\ \E refreshOk, publishOk \in BOOLEAN :
            LET refreshed == expired /\ refreshOk
                token == IF refreshed THEN accounts[a].accessToken + 1
                         ELSE accounts[a].accessToken
                called == ~expired \/ refreshOk
            IN
            /\ expired \/ refreshOk
            /\ accounts' = IF refreshed
                           THEN updateLinkedinAccount(a, token, clock + ExpiresIn)
                           ELSE accounts
            /\ pubCalls' = IF called
                           THEN [pubCalls EXCEPT ![p] =
                                   Append(@, [token |-> token, ok |-> publishOk,
                                              id |-> IF publishOk THEN NextExternalId(p)
                                                     ELSE NoId,
                                              by |-> 0])]
                           ELSE pubCalls
            /\ posts' = IF called /\ publishOk
                        THEN updatePost(p, "published", NextExternalId(p), clock, Null)
                        ELSE posts
    /\ UNCHANGED <<variant, clock, sweeps, faultsLeft, intervalId, timers, sched>>

----------------------------------------------------------------------------
(* PostScheduler *)

\* a guard that would never see the live timer
AlreadyRunning_Never == FALSE

\* if (this.intervalId)
AlreadyRunning == intervalId # NoId

\* processScheduledPosts(): one POST to /api/posts/process-scheduled, the
\* route both the Express server and the Workers port serve
Trigger(sc) == [sc EXCEPT !.triggers = @ + 1, !.pending = @ + 1]

\* a start() that would leave the first sweep to the timer
RunImmediately_Skipped(sc) == sc

\* "Run immediately on start"
RunImmediately(sc) == Trigger(sc)

\* start(): a no-op when running; else setInterval(..., checkInterval) and
\* one call of processScheduledPosts right away
Start ==
    /\ sched.calls < MaxStarts
    /\ IF AlreadyRunning
       THEN /\ sched' = [sched EXCEPT !.calls = @ + 1]
            /\ UNCHANGED <<intervalId, timers>>
       ELSE LET h == sched.calls + 1 IN
            /\ timers' = timers \cup {[h |-> h, fireAt |-> clock + checkInterval]}
            /\ intervalId' = <<h>>
            /\ sched' = RunImmediately([sched EXCEPT !.calls = h, !.triggers = 0,
                                                     !.startedAt = clock])
    /\ UNCHANGED <<variant, clock, posts, accounts, sweeps, pubCalls, faultsLeft>>

\* a request of the endpoint has fetched and has not yet answered
InFlight(s) == sweeps[s].pc \notin {"idle", "done"}

\* a stop() that would forget the handle and leave the interval live
Stop_KeepsTimer ==
    /\ intervalId' = NoId
    /\ sched' = [sched EXCEPT !.stoppedInFlight = \E s \in SweepIds : InFlight(s)]
    /\ UNCHANGED <<variant, clock, posts, accounts, sweeps, pubCalls, faultsLeft, timers>>

\* a stop() that would also drop the requests the endpoint is serving
Stop_CancelsSweep ==
    /\ timers' = {}
    /\ intervalId' = NoId
    /\ sweeps' = [s \in SweepIds |-> IdleSweep]
    /\ sched' = [sched EXCEPT !.stoppedInFlight = \E s \in SweepIds : InFlight(s)]
    /\ UNCHANGED <<variant, clock, posts, accounts, pubCalls, faultsLeft>>

\* stop(): clearInterval and forget the handle; nothing when not running.
\* sched.stoppedInFlight keeps, for the properties, whether the last call
\* came while a sweep was in flight.
Stop ==
    /\ IF intervalId # NoId
       THEN /\ timers' = { t \in timers : <<t.h>> # intervalId }
            /\ intervalId' = NoId
       ELSE UNCHANGED <<intervalId, timers>>
    /\ sched' = [sched EXCEPT !.stoppedInFlight = \E s \in SweepIds : InFlight(s)]
    /\ UNCHANGED <<variant, clock, posts, accounts, sweeps, pubCalls, faultsLeft>>

\* the interval's callback
TimerFire ==
    /\ \E t \in timers :
          /\ t.fireAt <= clock
          /\ timers' = (timers \ {t}) \cup {[t EXCEPT !.fireAt = @ + checkInterval]}
    /\ sched' = Trigger(sched)
    /\ UNCHANGED <<variant, clock, posts, accounts, sweeps, pubCalls, faultsLeft,
                   intervalId>>

\* how the fetch of processScheduledPosts() can end: a 2xx response, another
\* response, a rejected fetch, a response.json() that throws
Outcomes == {"ok", "notok", "neterr", "thrown"}

\* a processScheduledPosts() that would let the errors of its fetch out
Settle_Rethrows(sc, o) ==
    [sc EXCEPT !.outcome = o,
               !.errTrigger = IF o = "ok" THEN @ ELSE sc.triggers,
               !.rejected = o \in {"neterr", "thrown"}]

\* processScheduledPosts() once its fetch has ended with outcome o: every
\* branch logs and returns.  sched.errTrigger keeps, for the properties, the
\* number of the last trigger whose call did not end well.
Settle(sc, o) ==
    [sc EXCEPT !.outcome = o,
               !.errTrigger = IF o = "ok" THEN @ ELSE sc.triggers]

\* the request never reaches the endpoint: fetch rejects
RequestLost ==
    /\ sched.pending > 0
    /\ sched' = Settle([sched EXCEPT !.pending = @ - 1], "neterr")
    /\ UNCHANGED <<variant, clock, posts, accounts, sweeps, pubCalls, faultsLeft,
                   intervalId, timers>>

\* the response of a request reaches the scheduler
SweepAnswered(s) ==
    /\ sweeps[s].pc = "done"
    /\ sweeps' = [sweeps EXCEPT ![s] = IdleSweep]
    /\ \E o \in IF sweeps[s].code = 200 THEN {"ok", "thrown"} ELSE {"notok"} :
          sched' = Settle(sched, o)
    /\ UNCHANGED <<variant, clock, posts, accounts, pubCalls, faultsLeft,
                   intervalId, timers>>

----------------------------------------------------------------------------
(* Specifications *)

NoSched ==
    [calls |-> 0, triggers |-> 0, startedAt |-> 0, pending |-> 0,
     stoppedInFlight |-> FALSE, outcome |-> "none", errTrigger |-> 0,
     rejected |-> FALSE]

\* Two connected accounts: acctR holds a refresh token and an access token
\* that expired at 0; acctN holds no refresh token and a token that expires
\* at 2.  With posts scheduled for 1 and the clock running from 0, a sweep
\* meets every case: a token still valid, one expiring this very minute, one
\* expired, with and without a refresh token.
InitStore ==
    /\ clock = 0
    /\ posts = [p \in PostIds |-> NoPost]
    /\ accounts = [a \in AccountIds |->
          IF a = "acctR" THEN Account(0, "refresh", 0) ELSE Account(0, Null, 2)]
    /\ sweeps = [s \in SweepIds |-> IdleSweep]
    /\ pubCalls = [p \in PostIds |-> <<>>]
    /\ intervalId = NoId
    /\ timers = {}
    /\ sched = NoSched

\* every storage call returns
Init ==
    /\ variant \in Variants
    /\ InitStore
    /\ faultsLeft = 0

Quiet == \A s \in SweepIds : sweeps[s].pc = "idle"

\* one request at a time, triggered by a direct call of the endpoint
NextSeq ==
    \/ \E p \in PostIds, in \in ScheduledInputs :
          Quiet /\ CreatePost(p, in[1], in[2])
    \/ Tick(MaxTime)
    \/ Quiet /\ SweepStart(1)
    \/ SweepStep(1)

SpecSeq == Init /\ [][NextSeq]_vars

\* one request at a time until MaxFaultTime, over a store of at most
\* MaxFaultPosts posts whose calls may reject, MaxFaults times in all
InitFault ==
    /\ variant \in Variants
    /\ InitStore
    /\ faultsLeft = MaxFaults

NextFault ==
    \/ \E p \in 1..MaxFaultPosts, in \in SchedTimes \X {"acctR", Null} :
          Quiet /\ CreatePost(p, in[1], in[2])
    \/ Tick(MaxFaultTime)
    \/ Quiet /\ SweepStart(1)
    \/ SweepStep(1)

SpecFault == InitFault /\ [][NextFault]_vars

\* the Express server
InitSched ==
    /\ variant = "express"
    /\ InitStore
    /\ faultsLeft = 0

\* the scheduler, the endpoint serving its requests one at a time over a
\* store of one post
NextSched ==
    \/ Start
    \/ Stop
    \/ TimerFire
    \/ Tick(MaxTicks)
    \/ \E t \in SchedTimes : CreatePost(1, t, "acctR")
    \/ SweepStartTriggered(1)
    \/ SweepStep(1)

SpecSched == InitSched /\ [][NextSched]_vars

\* post creation, sweeps that may overlap, and on-demand publishes, over a
\* store of at most MaxSharedPosts posts
NextOps ==
    \/ \E p \in 1..MaxSharedPosts, in \in ScheduledInputs \cup {DraftInput} :
          CreatePost(p, in[1], in[2])
    \/ Tick(MaxTime)
    \/ \E s \in SweepIds : SweepStart(s)
    \/ \E s \in SweepIds : SweepStep(s)
    \/ \E p \in PostIds, a \in AccountIds : PublishNow(p, a)

SpecOps == Init /\ [][NextOps]_vars

\* one request at a time until MaxOrderTime, over a store of at most
\* MaxOrderPosts posts of acctR scheduled for different times
OrderTimes == {0, 1}

NextOrder ==
    \/ \E p \in 1..MaxOrderPosts, t \in OrderTimes :
          Quiet /\ CreatePost(p, t, "acctR")
    \/ Tick(MaxOrderTime)
    \/ Quiet /\ SweepStart(1)
    \/ SweepStep(1)

SpecOrder == Init /\ [][NextOrder]_vars

\* the scheduler left running, its requests served by either implementation
\* of the route, over a store of one post with or without an account.  The
\* timer fires when it is due, time passes, the endpoint serves the requests
\* it is sent and every call of a sweep returns.
NextLive ==
    \/ Start
    \/ TimerFire
    \/ Tick(MaxTicks)
    \/ \E t \in SchedTimes, a \in {"acctR", Null} : CreatePost(1, t, a)
    \/ SweepStartTriggered(1)
    \/ SweepStep(1)

SpecLive ==
    /\ Init /\ [][NextLive]_vars
    /\ WF_vars(TimerFire) /\ WF_vars(Tick(MaxTicks))
    /\ WF_vars(SweepStartTriggered(1)) /\ WF_vars(SweepStep(1))

\* the scheduler and what comes back to it: requests that are lost, answered
\* 200, or answered 500 by an endpoint whose storage call may reject
InitTrigger ==
    /\ variant = "express"
    /\ InitStore
    /\ faultsLeft = MaxFaults

NextTrigger ==
    \/ Start
    \/ Stop
    \/ TimerFire
    \/ Tick(MaxTicks)
    \/ RequestLost
    \/ SweepStartTriggered(1)
    \/ SweepAnswered(1)

SpecTrigger == InitTrigger /\ [][NextTrigger]_vars

\* creation of drafts and scheduled posts and on-demand publishes with
\* either account, over a store of at most MaxSharedPosts posts
NextPublish ==
    \/ \E p \in 1..MaxSharedPosts, t \in SchedTimes \cup {NoTime} :
          CreatePost(p, t, "acctR")
    \/ Tick(MaxTime)
    \/ \E p \in PostIds, a \in AccountIds : PublishNow(p, a)

SpecPublish == Init /\ [][NextPublish]_vars

\* SpecOrder with every call of a sweep returning
SpecTerm == Init /\ [][NextOrder]_vars /\ WF_vars(SweepStep(1))

\* the serving slots are interchangeable: a new request takes the first free one
FirstFree(s) ==
    /\ sweeps[s].pc = "idle"
    /\ \A t \in SweepIds : t < s => sweeps[t].pc # "idle"

\* direct calls of the Express endpoint that may overlap, until
\* MaxOverlapTime, over a store of one post
NextOverlap ==
    \/ \E t \in SchedTimes : CreatePost(1, t, "acctR")
    \/ Tick(MaxOverlapTime)
    \/ \E s \in SweepIds : FirstFree(s) /\ SweepStart(s)
    \/ \E s \in SweepIds : SweepStep(s)

SpecOverlap == InitSched /\ [][NextOverlap]_vars

----------------------------------------------------------------------------
(* Properties *)

Finished(s) == sweeps[s].pc = "done"

AccountOf(p) == posts[p].linkedinAccountId

\* the stored token of a's account is past its expiry at time t
ExpiredAt(a, t) ==
    accounts[a].tokenExpiresAt # NoTime /\ accounts[a].tokenExpiresAt < t

\* C1: after one complete sweep, every post that was due when the sweep
\* fetched, whose account is stored and holds an unexpired or refreshable
\* token, and for which no provider call failed, is published, carries the
\* id the publisher returned, and has publishedAt equal to the sweep's now.
C1_DuePostsPublished ==
    \A s \in SweepIds : Finished(s) =>
        \A p \in sweeps[s].due :
            ( /\ AccountFound(AccountOf(p))
              /\ ~ExpiredAt(AccountOf(p), sweeps[s].now)
                    \/ accounts[AccountOf(p)].refreshToken # Null
              /\ p \notin sweeps[s].envFailed )
            => /\ posts[p].status = "published"
               /\ Len(pubCalls[p]) > 0
               /\ posts[p].linkedinPostId = pubCalls[p][Len(pubCalls[p])].id
               /\ posts[p].publishedAt = sweeps[s].now

\* C2: after one sweep, every post that was due at the fetch, that the fetch
\* returned, and that has no account, or an account id that resolves to no
\* stored account, or an expired token with no refresh token, is failed
\* with an error message and no external id, and the publisher was not
\* called for it.
C2_UnusableAccountFails ==
    \A s \in SweepIds : Finished(s) =>
        \A p \in sweeps[s].due \cap sweeps[s].fetched :
            ( \/ ~AccountFound(AccountOf(p))
              \/ /\ ExpiredAt(AccountOf(p), sweeps[s].now)
                 /\ accounts[AccountOf(p)].refreshToken = Null )
            => /\ posts[p].status = "failed"
               /\ posts[p].errorMessage # Null
               /\ posts[p].linkedinPostId = NoId
               /\ pubCalls[p] = <<>>

\* what the sweep's own eligibility check says of a row it fetched
WasEligible(s, p) ==
    Eligible([id |-> p, scheduledAt |-> posts[p].scheduledAt,
              linkedinAccountId |-> posts[p].linkedinAccountId], sweeps[s].now)

\* C3: a failure while processing one post never aborts the batch: when the
\* sweep ends, every fetched post that passed the eligibility check has been
\* attempted and is published if its own publish call succeeded and failed
\* otherwise, and the counts add up.
C3_FailureDoesNotAbortBatch ==
    \A s \in SweepIds : Finished(s) =>
        /\ \A p \in sweeps[s].fetched : WasEligible(s, p) =>
              /\ posts[p].status \in {"published", "failed"}
              /\ posts[p].status = "published" <=> OkCalls(p) # {}
              /\ posts[p].status = "failed" => posts[p].errorMessage # Null
        /\ sweeps[s].processed + sweeps[s].failed =
              Cardinality({ p \in sweeps[s].fetched : WasEligible(s, p) })

\* three due posts, the publish call of the second alone fails:
\* published, failed, published and {processed: 2, failed: 1, total: 3}
C3_Witness ==
    /\ Finished(1)
    /\ sweeps[1].fetched = {1, 2, 3}
    /\ sweeps[1].envFailed = {2}
    /\ posts[1].status = "published"
    /\ posts[2].status = "failed" /\ posts[2].errorMessage = MsgApi
    /\ posts[3].status = "published"
    /\ sweeps[1].processed = 2 /\ sweeps[1].failed = 1 /\ sweeps[1].total = 3

\* C4: the counts a sweep answers: total is the number of rows the fetch
\* returned, processed the number of posts the sweep set to published,
\* failed the number it set to failed.
C4_CountsMatch ==
    \A s \in SweepIds : (Finished(s) /\ sweeps[s].code = 200) =>
        /\ sweeps[s].total = Cardinality(sweeps[s].fetched)
        /\ sweeps[s].processed =
              Cardinality({ p \in sweeps[s].fetched : posts[p].status = "published" })
        /\ sweeps[s].failed =
              Cardinality({ p \in sweeps[s].fetched : posts[p].status = "failed" })

\* a sweep that fetched a post it skipped, published one and failed one
C4_Witness ==
    /\ Finished(1) /\ sweeps[1].code = 200
    /\ sweeps[1].total = 3 /\ sweeps[1].processed = 1 /\ sweeps[1].failed = 1

\* C5: a published post is never passed to the publisher again: over
\* sweeps that do not overlap, a post recorded as published has been
\* published externally exactly once.
C5_PublishedOnce ==
    /\ [](\A p \in PostIds : posts[p].status = "published" =>
              Cardinality(OkCalls(p)) = 1)
    /\ [][\A p \in PostIds : posts[p].status = "published" =>
              pubCalls'[p] = pubCalls[p]]_vars

\* a sweep has run to its end after the post was published
C5_Witness ==
    \E p \in PostIds :
        /\ posts[p].status = "published"
        /\ Finished(1) /\ sweeps[1].now > posts[p].publishedAt
        /\ sweeps[1].total > 0

\* C6: a failed post is never attempted again: no step of a later sweep
\* calls the publisher for it or changes any of its fields.
C6_FailedNeverRetried ==
    [][\A p \in PostIds :
          (posts[p].status = "failed" /\ sweeps' # sweeps) =>
              /\ posts'[p] = posts[p]
              /\ pubCalls'[p] = pubCalls[p]]_vars

\* a later sweep has run to its end over a store holding a post that an
\* earlier sweep failed
C6_Witness ==
    \E p \in PostIds :
        /\ posts[p].status = "failed"
        /\ Finished(1) /\ p \notin sweeps[1].wroteFailed
        /\ sweeps[1].total > 0

\* C7: when the sweep is about to call the publisher for an account that
\* holds a refresh token, the stored token is not an expired one and is
\* the one the call carries; after a refresh the call carries the new token.
C7_PublishUsesRefreshedToken ==
    \A s \in SweepIds : sweeps[s].pc = "publish" =>
        LET a == sweeps[s].cur.linkedinAccountId IN
        accounts[a].refreshToken # Null =>
            /\ ~ExpiredAt(a, sweeps[s].now)
            /\ sweeps[s].token = accounts[a].accessToken
            /\ sweeps[s].refreshed => sweeps[s].token = sweeps[s].newToken

Running == intervalId # NoId

\* C9: at most one interval timer is live, whatever start() and stop() calls
\* were made; a start() on a running scheduler adds no timer and triggers no
\* sweep.
C9_SingleTimer ==
    /\ [](Cardinality(timers) <= 1 /\ (Running <=> timers # {}))
    /\ [][(Running /\ sched'.calls # sched.calls) =>
              /\ timers' = timers
              /\ intervalId' = intervalId
              /\ sched'.triggers = sched.triggers
              /\ sched'.pending = sched.pending]_vars

\* start() has been called on a scheduler that was running
C9_Witness ==
    /\ Running
    /\ sched.calls = 2 /\ Cardinality(timers) = 1
    /\ \E t \in timers : t.h = 1

\* C10: while the scheduler runs, the sweeps it has triggered since start()
\* are one for the start and one for each interval elapsed since.
C10_ImmediateThenPeriodic ==
    (Running /\ NoTimerDue) =>
        sched.triggers = 1 + ((clock - sched.startedAt) \div checkInterval)

\* the immediate sweep and two periodic ones
C10_Witness ==
    Running /\ NoTimerDue /\ sched.triggers = 3

\* C8: in every state of the post store, a post is published exactly when
\* it has both an external id and a published-at time, and a failed post has
\* an error message and no external id.
C8_StatusFieldsAgree ==
    \A p \in PostIds : Exists(p) =>
        /\ posts[p].status = "published" <=>
              (posts[p].linkedinPostId # NoId /\ posts[p].publishedAt # NoTime)
        /\ posts[p].status = "failed" =>
              (posts[p].errorMessage # Null /\ posts[p].linkedinPostId = NoId)

\* a step of stop(): it stops a running scheduler, or it is seen by the
\* record of the last call
StopStep ==
    \/ intervalId # NoId /\ intervalId' = NoId
    \/ sched'.stoppedInFlight # sched.stoppedInFlight

\* C11: once stop() has returned no timer is live and no sweep is triggered
\* until the next start(); a stop() on a scheduler that is not running
\* changes nothing; a start() on a stopped scheduler leaves it running with
\* one timer.
C11_StopSemantics ==
    /\ [](~Running => timers = {})
    /\ [][(~Running /\ intervalId' = NoId) =>
              /\ sched'.triggers = sched.triggers
              /\ sched'.pending <= sched.pending]_vars
    /\ [][(~Running /\ StopStep) =>
              /\ intervalId' = NoId /\ timers' = timers
              /\ posts' = posts /\ accounts' = accounts /\ sweeps' = sweeps
              /\ pubCalls' = pubCalls /\ clock' = clock
              /\ sched' = [sched EXCEPT !.stoppedInFlight = sched'.stoppedInFlight]]_vars
    /\ [][(~Running /\ sched'.calls # sched.calls) =>
              /\ intervalId' # NoId
              /\ Cardinality(timers') = 1
              /\ sched'.triggers = 1]_vars

\* started, stopped, started again, and the second timer has fired once
C11_Witness ==
    /\ Running
    /\ sched.calls = 2 /\ sched.triggers = 2
    /\ \E t \in timers : t.h = 2

\* C12: stop() leaves the requests the endpoint is serving alone: a sweep in
\* flight can always take its next step, and when it ends every fetched post
\* that passed the eligibility check has its status recorded.
C12_StopKeepsSweepInFlight ==
    /\ [][StopStep => (sweeps' = sweeps /\ posts' = posts /\ pubCalls' = pubCalls)]_vars
    /\ [](\A s \in SweepIds : InFlight(s) => ENABLED SweepStep(s))
    /\ [](\A s \in SweepIds : (Finished(s) /\ ~Running) =>
              \A p \in sweeps[s].fetched : WasEligible(s, p) =>
                  posts[p].status \in {"published", "failed"})

\* the one sweep the scheduler triggered was in flight when stop() came and
\* has since recorded its post as published
C12_Witness ==
    /\ ~Running /\ sched.stoppedInFlight
    /\ sched.calls = 1 /\ sched.triggers = 1
    /\ Finished(1) /\ sweeps[1].wrotePublished = {1}
    /\ posts[1].status = "published"

C14_FuturePostUntouched ==
    \A s \in SweepIds : Finished(s) =>
        \A p \in PostIds :
            (posts[p].status = "scheduled" /\ posts[p].scheduledAt > sweeps[s].now) =>
                /\ p \in sweeps[s].fetched
                /\ sweeps[s].total = Cardinality(sweeps[s].fetched)
                /\ p \notin sweeps[s].wrotePublished \cup sweeps[s].wroteFailed
                /\ pubCalls[p] = <<>>
                /\ posts[p].linkedinPostId = NoId /\ posts[p].publishedAt = NoTime
                /\ posts[p].errorMessage = Null

C16_SweepWritesOnlyScheduled ==
    [][\A p \in PostIds :
          (sweeps' # sweeps /\ posts'[p] # posts[p]) =>
              posts[p].status = "scheduled"]_vars

\* C17: nothing keeps a second sweep from starting while another is in
\* flight: whenever one request is being served and a slot is free, the
\* endpoint accepts another request.
C17_SweepsNotExclusive ==
    \A s, t \in SweepIds :
        (s # t /\ InFlight(s) /\ sweeps[t].pc = "idle") => ENABLED SweepStart(t)

\* two sweeps in flight together fetched the same post and the provider
\* accepted it from both: two external posts for one stored post
C17_Witness ==
    \E p \in PostIds :
        /\ \E i, j \in OkCalls(p) :
              /\ pubCalls[p][i].by = 1 /\ pubCalls[p][j].by = 2
              /\ pubCalls[p][i].id # pubCalls[p][j].id
        /\ p \in sweeps[1].fetched \cap sweeps[2].fetched
        /\ sweeps[1].pc # "idle" /\ sweeps[2].pc # "idle"

\* C18: once the provider has rejected a refresh for an account, the sweep
\* makes no further refresh call and no publish call for that account.
C18_RejectedAccountUnused ==
    \A s \in SweepIds :
        sweeps[s].pc \in {"refresh", "save", "publish"} =>
            sweeps[s].cur.linkedinAccountId \notin sweeps[s].rejected

\* C19: only a step of a sweep writes a stored account: the on-demand
\* publish and post creation leave every account as it was.
C19_OnlySweepWritesAccounts ==
    [][accounts' # accounts => sweeps' # sweeps]_vars

\* C20: the Express sweep calls the publisher without a refresh only for an
\* account whose tokenExpiresAt is absent or after the sweep's now, and goes
\* to the refresher only for one whose tokenExpiresAt is present and not
\* after now.
C20_ExpiryCheckInclusive ==
    \A s \in SweepIds : variant = "express" =>
        LET a == sweeps[s].cur.linkedinAccountId IN
        /\ (sweeps[s].pc = "publish" /\ ~sweeps[s].refreshed) =>
              \/ accounts[a].tokenExpiresAt = NoTime
              \/ accounts[a].tokenExpiresAt > sweeps[s].now
        /\ sweeps[s].pc = "refresh" =>
              /\ accounts[a].tokenExpiresAt # NoTime
              /\ accounts[a].tokenExpiresAt <= sweeps[s].now

\* C21: the fetch of a sweep returns exactly the stored posts whose status
\* is scheduled, whatever their scheduledAt: as long as the sweep has
\* written nothing, the set it fetched is the set of scheduled posts.
C21_FetchReturnsAllScheduled ==
    \A s \in SweepIds :
        (sweeps[s].pc # "idle" /\ ~sweeps[s].outer
           /\ sweeps[s].wrotePublished \cup sweeps[s].wroteFailed = {}) =>
            sweeps[s].fetched = { p \in PostIds : posts[p].status = "scheduled" }

\* C22: a fetched post with no account id is skipped by the sweep: no
\* lookup is made for it, nothing is thrown or written for it, the publisher
\* is not called, and when the sweep ends it is still scheduled with no
\* error message.
C22_NoAccountIsSkipped ==
    \A s \in SweepIds : Finished(s) =>
        \A p \in sweeps[s].fetched : AccountOf(p) = Null =>
            /\ p \notin sweeps[s].thrown
            /\ p \notin sweeps[s].wrotePublished \cup sweeps[s].wroteFailed
            /\ pubCalls[p] = <<>>
            /\ posts[p].status = "scheduled" /\ posts[p].errorMessage = Null

\* the fetched posts a sweep has gone past
Passed(s) ==
    { p \in sweeps[s].fetched :
        /\ p # sweeps[s].cur.id
        /\ \A r \in sweeps[s].rest : r.id # p }

\* C23: a sweep handles its posts one at a time in ascending scheduledAt:
\* the post in hand is due no later than any post still to come, every post
\* it has gone past is due no later than the post in hand and is settled
\* (written, or skipped by the eligibility check) before the next begins.
C23_OneAtATimeInFetchOrder ==
    \A s \in SweepIds : InFlight(s) =>
        /\ sweeps[s].cur # NoSnapshot =>
              \A r \in sweeps[s].rest : OrderedBefore(sweeps[s].cur, r)
        /\ \A p \in Passed(s) :
              /\ \A r \in sweeps[s].rest : OrderedBefore(Snapshot(p), r)
              /\ sweeps[s].cur # NoSnapshot => OrderedBefore(Snapshot(p), sweeps[s].cur)
              /\ \/ p \in sweeps[s].wrotePublished \cup sweeps[s].wroteFailed
                 \/ ~WasEligible(s, p)

\* post 2 is scheduled before post 1: the sweep has published post 2 and is
\* about to call the publisher for post 1
C23_Witness ==
    /\ posts[1].scheduledAt = 1 /\ posts[2].scheduledAt = 0
    /\ sweeps[1].pc = "publish" /\ sweeps[1].cur.id = 1
    /\ 2 \in sweeps[1].wrotePublished
    /\ variant = "express"

\* the publisher accepted a call of sweep s for post p
PublishedBy(s, p) ==
    \E i \in 1..Len(pubCalls[p]) : pubCalls[p][i].ok /\ pubCalls[p][i].by = s

\* C24: a post whose publish call succeeded in a sweep is never recorded as
\* failed by that sweep, also when the storage update that follows rejects.
C24_PublishedNeverRecordedFailed ==
    \A s \in SweepIds : \A p \in sweeps[s].wroteFailed : ~PublishedBy(s, p)

\* the stored post p is as sweep s fetched it: still scheduled, for the same
\* time and account
AsFetched(s, p) ==
    LET row == CHOOSE r \in {sweeps[s].cur} \cup sweeps[s].rest : r.id = p
    IN  /\ posts[p].status = "scheduled"
        /\ posts[p].scheduledAt = row.scheduledAt
        /\ posts[p].linkedinAccountId = row.linkedinAccountId

\* C25: a sweep acts on the stored state of a post, not on the rows it
\* fetched: it calls the publisher for a post, and writes a status for it,
\* only while the stored post is still as it was fetched.
C25_SweepActsOnCurrentState ==
    [][\A s \in SweepIds : \A p \in PostIds :
          (/\ sweeps'[s] # sweeps[s]
           /\ sweeps[s].pc \in {"publish", "record", "catch"}
           /\ sweeps[s].cur.id = p
           /\ (pubCalls'[p] # pubCalls[p] \/ posts'[p] # posts[p]))
              => AsFetched(s, p)]_vars

Skipped(s) == { p \in sweeps[s].fetched : ~WasEligible(s, p) }

\* C27: at every point of a sweep no fetched post has been counted on both
\* sides, the counters are the numbers of posts counted and never exceed the
\* total; when the sweep answers its counts, what is left of the total is the
\* number of fetched posts the eligibility check skipped.
C27_CountersAddUp ==
    \A s \in SweepIds : sweeps[s].pc # "idle" =>
        LET sw == sweeps[s] IN
        /\ sw.wrotePublished \cap sw.wroteFailed = {}
        /\ sw.wrotePublished \cup sw.wroteFailed \subseteq sw.fetched
        /\ sw.processed = Cardinality(sw.wrotePublished)
        /\ sw.failed = Cardinality(sw.wroteFailed)
        /\ sw.processed + sw.failed <= sw.total
        /\ (Finished(s) /\ sw.code = 200) =>
              sw.total - sw.processed - sw.failed = Cardinality(Skipped(s))

\* a sweep over two fetched posts has answered its counts: one post was
\* counted and the other skipped
C27_Witness ==
    /\ Finished(1) /\ sweeps[1].code = 200
    /\ sweeps[1].total = 2
    /\ sweeps[1].processed + sweeps[1].failed = 1
    /\ Cardinality(Skipped(1)) = 1

\* a step in which a call of processScheduledPosts() ends
SettleStep ==
    \/ sched'.pending = sched.pending - 1 /\ sweeps' = sweeps
    \/ \E s \in SweepIds : Finished(s) /\ sweeps'[s].pc = "idle"

\* C28: however a triggered call ends (lost request, response that is not
\* OK, error thrown while reading it), processScheduledPosts() does not
\* reject, the interval handle and its timer stay as they were, and while
\* the scheduler runs its timer is set to fire within the interval and
\* fires when due.
C28_OutcomeNeverStopsTrigger ==
    /\ [](~sched.rejected)
    /\ [][SettleStep => (intervalId' = intervalId /\ timers' = timers)]_vars
    /\ [](Running =>
            \E t \in timers :
                /\ <<t.h>> = intervalId
                /\ t.fireAt <= clock + checkInterval
                /\ t.fireAt <= clock => ENABLED TimerFire)

\* the scheduler, started once, has seen a call end badly and its timer has
\* triggered another sweep since
C28_Witness ==
    /\ Running /\ sched.calls = 1
    /\ sched.errTrigger > 0 /\ sched.triggers > sched.errTrigger
    /\ sched.outcome # "ok"

\* the on-demand publish of p with account a answers 401
Answers401(a) ==
    /\ accounts[a].tokenExpiresAt # NoTime /\ accounts[a].tokenExpiresAt < clock
    /\ ~(variant = "express" /\ accounts[a].refreshToken # Null)

\* C29: an on-demand publish changes the stored post only when the publisher
\* accepted its call, and then to published: after a call the publisher
\* refused, a refresh that failed or a 401 for an expired token the post has
\* the status, external id, published-at time and error message it had.
C29_FailedPublishLeavesPost ==
    /\ [][\A p \in PostIds : (Exists(p) /\ posts'[p] # posts[p]) =>
              /\ Len(pubCalls'[p]) = Len(pubCalls[p]) + 1
              /\ pubCalls'[p][Len(pubCalls'[p])].ok
              /\ posts'[p].status = "published"]_vars
    /\ [](\A p \in PostIds, a \in AccountIds : (Exists(p) /\ Answers401(a)) =>
              ~ENABLED (PublishNow(p, a) /\ posts' # posts))

\* the publisher refused an on-demand call for a scheduled post, which is
\* scheduled still, with no error message
C29_Witness ==
    /\ Len(pubCalls[1]) = 1
    /\ ~pubCalls[1][1].ok /\ pubCalls[1][1].by = 0
    /\ posts[1].status = "scheduled" /\ posts[1].errorMessage = Null
    /\ posts[1].linkedinPostId = NoId /\ posts[1].publishedAt = NoTime

\* the publisher calls made for post p by sweep s
CallsBy(s, p) == { i \in 1..Len(pubCalls[p]) : pubCalls[p][i].by = s }

\* C30: when every call returns, a sweep that has fetched ends with an
\* answer.  On the way it takes each fetched post once (the posts still to
\* come only get fewer, the post in hand is not among them, and none is left
\* when the counts are answered), and for each post it takes it goes through
\* the refresher at most once (only on the way from the lookup) and calls the
\* publisher at most once.
C30_SweepTerminates ==
    /\ \A s \in SweepIds : InFlight(s) ~> Finished(s)
    /\ [](\A s \in SweepIds :
            /\ sweeps[s].cur \notin sweeps[s].rest
            /\ { r.id : r \in sweeps[s].rest } \subseteq sweeps[s].fetched
            /\ (Finished(s) /\ sweeps[s].code = 200) =>
                  (sweeps[s].rest = {} /\ Passed(s) = sweeps[s].fetched)
            /\ \A p \in PostIds : Cardinality(CallsBy(s, p)) <= 1)
    /\ [][\A s \in SweepIds : InFlight(s) =>
            /\ sweeps'[s].rest \subseteq sweeps[s].rest
            /\ Cardinality(sweeps[s].rest \ sweeps'[s].rest) <= 1
            /\ (sweeps'[s].pc = "refresh" /\ sweeps'[s] # sweeps[s]) =>
                  (sweeps[s].pc = "loop" /\ sweeps'[s].rest # sweeps[s].rest)
            /\ pubCalls' # pubCalls =>
                  (sweeps[s].pc = "publish" /\ sweeps'[s].pc # "publish")]_vars

\* a sweep over two fetched posts has answered: it refreshed the token for
\* the first and called the publisher once for each
C30_Witness ==
    /\ Finished(1) /\ sweeps[1].code = 200
    /\ sweeps[1].fetched = {1, 2} /\ sweeps[1].rest = {}
    /\ Cardinality(CallsBy(1, 1)) = 1 /\ Cardinality(CallsBy(1, 2)) = 1
    /\ accounts["acctR"].accessToken = 1

====
